---- MODULE Spec2Model ----
(***************************************************************************)
(* Order transaction engine and payment reconciliation of the e-commerce   *)
(* backend (Django/DRF on PostgreSQL, READ COMMITTED).                     *)
(*                                                                         *)
(* Every user has at most one request in flight; requests of different     *)
(* users, and the gateway's webhook deliveries, run concurrently.  A       *)
(* handler is cut into steps at its database statements: a SELECT reads    *)
(* the committed rows at that instant, an UPDATE/INSERT outside            *)
(* transaction.atomic is                                                   *)
(* committed at once (autocommit), the statements of a transaction.atomic  *)
(* block are buffered in the slot and become visible together at commit.   *)
(* An UPDATE of a row that another open transaction has written waits for  *)
(* that transaction (row lock).                                            *)
(*                                                                         *)
(* Money is in kobo (1/100 Naira).  A Decimal that is not yet stored is a   *)
(* pair of whole kobo and thousandths of a kobo; it is rounded when it is  *)
(* stored in a decimal_places=2 column.                                    *)
(* The receivers of orders/signals.py are taken as connected, as the       *)
(* repository's tests of them expect.                                      *)
(*                                                                         *)
(* The specifications share the state: Spec (carts, order creation and     *)
(* cancellation from an empty shop), OpsSpec (cancellation and the order   *)
(* maintenance operations on a placed order), OwnerSpec (what an order's   *)
(* owner can do through the order API), InitializeSpec (initialize and     *)
(* verify for a placed order), PaySpec (verify and the webhook on an       *)
(* initialized payment), FaultSpec (PaySpec with failing statements),      *)
(* CartPaySpec and CancelPaySpec (PaySpec with carts and further orders,   *)
(* and with cancellation), NumberSpec (the order_number column under       *)
(* concurrent order creations, which Spec leaves out) and CartSpec (the    *)
(* cart's methods called with any quantity).                               *)
(***************************************************************************)
EXTENDS Integers, Sequences, FiniteSets, TLC

Products == {"p1", "p2"}
Users    == {"u1", "u2"}
Gateway  == "gw"
Slots    == Users \cup {Gateway}

\* Bounds of the model: the orders placed, the units one add-to-cart request
\* asks for, the maintenance requests served and the payment requests
\* (initialize and verify calls, webhook deliveries) served.
MaxOrders     == 2
MaxQuantity   == 2
MaxUpdates    == 2
MaxDeliveries == 3

\* Catalogue data (the catalogue itself is managed outside the modelled core):
\* p1 is down to its last unit.
Price        == [p \in Products |-> IF p = "p1" THEN 9999 ELSE 3000000]
WeightGrams  == [p \in Products |-> 500]
InitialStock == [p \in Products |-> IF p = "p1" THEN 1 ELSE 2]

\* Shipping and tax policy, orders/api/views.py.
BaseShipping          == 100000
FreeShippingThreshold == 5000000
PerKgCost             == 10000
TaxRatePerMille       == 75

VARIABLES
    qty,        \* Product.quantity, per product (committed rows)
    qty0,       \* the quantity each product started with (for the stock ledger claims)
    hasCart,    \* whether the user's Cart row exists
    cart,       \* CartItem.quantity per user and product, 0 = no line
    orders,     \* committed Order rows, in commit order
    items,      \* OrderItem.quantity per order and product, 0 = no item
    history,    \* OrderStatusHistory statuses per order, oldest first
    pc,         \* where each requester's handler stands
    loc,        \* the handler's local variables and transaction buffer
    resp,       \* the response of the request that ended last
    payments,     \* Payment rows
    transactions, \* Transaction rows, oldest first
    webhooks,     \* PaymentWebhook rows (the processed flag of each), oldest first
    nReq,         \* requests served by the handlers the model bounds
    successOnly,  \* no reconciliation so far saw a failed charge or a gateway error
    overlapped,   \* two reconciliations of a payment have been in flight together
    numbers,      \* the order_number column of the committed Order rows, oldest first
    today         \* the date that timezone.now() gives

vars == <<qty, qty0, hasCart, cart, orders, items, history, pc, loc, resp,
          payments, transactions, webhooks, nReq, successOnly, overlapped,
          numbers, today>>

\* The order_number column and the clock it is generated from.
numState == <<numbers, today>>

\* The payment tables and what is recorded about their reconciliation.
payState == <<payments, transactions, webhooks, successOnly, overlapped>>

\* What the order engine's handlers never touch.
others == <<payState, nReq, numState>>

persisted == <<qty, hasCart, cart, orders, items, history>>

----------------------------------------------------------------------------
\* Rows and locals

NoLines == [p \in Products |-> 0]

NoWrites == [p \in Products |-> -1]

NoOrder == [user |-> "none", status |-> "none", payment_status |-> "none",
            subtotal |-> 0, shipping_cost |-> 0, tax_amount |-> 0,
            discount_amount |-> 0, total_amount |-> 0, notes |-> 0]

IdleLoc == [user |-> "none", oid |-> 0, snap |-> NoOrder, lines |-> NoLines,
            todo |-> {}, cur |-> "none", readQty |-> 0, wr |-> NoWrites,
            pid |-> 0, wid |-> 0, num |-> 0]

OrderIds == 1..Len(orders)

RECURSIVE SumOver(_, _)
SumOver(f, S) ==
    IF S = {} THEN 0
    ELSE LET x == CHOOSE y \in S : TRUE IN f[x] + SumOver(f, S \ {x})

\* Decimal values: k whole kobo and m thousandths of a kobo, 0 <= m < 1000.
Dec(k, m) == [k |-> k + m \div 1000, m |-> m % 1000]

DecAdd(a, b) == Dec(a.k + b.k, a.m + b.m)

\* A value as a decimal_places=2 column keeps it: numeric(10,2) rounds half
\* away from zero.
StoreDecimal(d) == IF d.m >= 500 THEN d.k + 1 ELSE d.k

----------------------------------------------------------------------------
\* Product

is_available(p) == qty[p] > 0

stock_quantity(p) == qty[p]

\* PositiveIntegerField: the column carries CHECK (quantity >= 0).
QuantityColumnAccepts_NoCheck(v) == TRUE

QuantityColumnAccepts(v) == v >= 0

\* Another open transaction has written product p's row and holds its lock.
RowLocked(r, p) == \E r2 \in Slots \ {r} : loc[r2].wr[p] # -1

----------------------------------------------------------------------------
\* Cart

CartIsEmpty_Never(u) == FALSE

CartIsEmpty(u) == \A p \in Products : cart[u][p] = 0

\* Cart.subtotal and Cart.total_weight over the cart's lines.
SubtotalOf(lines) == SumOver([p \in Products |-> lines[p] * Price[p]], Products)

TotalWeightOf(lines) == SumOver([p \in Products |-> lines[p] * WeightGrams[p]], Products)

CartSubtotal(u) == SubtotalOf(cart[u])

CartTotalWeight(u) == TotalWeightOf(cart[u])

\* CartItem.clean, run by CartItem.save through full_clean.
CartItemClean(p, q) == q > 0 /\ is_available(p) /\ stock_quantity(p) >= q

\* Cart.add_item as the cart API calls it (quantity validated >= 1).  The
\* model stops filling carts once MaxOrders orders are placed.
AddItem(u, p, q) ==
    /\ pc[u] = "idle"
    /\ Len(orders) < MaxOrders
    /\ hasCart[u]
    /\ is_available(p)
    /\ stock_quantity(p) >= q
    /\ LET new == cart[u][p] + q IN
         /\ stock_quantity(p) >= new
         /\ CartItemClean(p, new)
         /\ cart' = [cart EXCEPT ![u][p] = new]
    /\ UNCHANGED <<qty, qty0, hasCart, orders, items, history, pc, loc, resp>>
    /\ UNCHANGED others

----------------------------------------------------------------------------
\* Order creation: OrderViewSet._create_order_from_cart, one transaction

\* _calculate_shipping_cost, in kobo.
ShippingCost(lines) ==
    IF SubtotalOf(lines) >= FreeShippingThreshold THEN 0
    ELSE BaseShipping + (TotalWeightOf(lines) * PerKgCost) \div 1000

\* _calculate_tax: subtotal * Decimal('0.075').
CalculateTax(subtotal) == Dec(0, subtotal * TaxRatePerMille)

\* The Order row that Order.objects.create inserts.
NewOrder(u, lines) ==
    LET subtotal == SubtotalOf(lines)
        shipping == ShippingCost(lines)
        tax      == CalculateTax(subtotal)
    IN  [user |-> u, status |-> "pending", payment_status |-> "pending",
         subtotal |-> subtotal, shipping_cost |-> shipping,
         tax_amount |-> StoreDecimal(tax),
         discount_amount |-> 0,
         total_amount |-> StoreDecimal(DecAdd(DecAdd(Dec(subtotal, 0), Dec(shipping, 0)), tax)),
         notes |-> 0]

\* The outcome of the checks before anything is written.
Validation(u) ==
    IF ~hasCart[u] THEN "cart_not_found"
    ELSE IF CartIsEmpty(u) THEN "cart_empty"
    ELSE IF \E p \in Products :
               cart[u][p] > 0 /\ (~is_available(p) \/ stock_quantity(p) < cart[u][p])
         THEN "stock_error"
    ELSE "ok"

InFlightCreates == Cardinality({r \in Slots : pc[r] \in {"co_loop", "co_save"}})

\* Cart lookup, empty check, stock validation, totals, the Order INSERT and
\* the second cart.items.all() query (the user's cart has no other writer
\* while the user's request runs).
CreateOrderBegin(u) ==
    /\ pc[u] = "idle"
    /\ Len(orders) + InFlightCreates < MaxOrders
    /\ IF Validation(u) # "ok"
       THEN /\ resp' = Validation(u)
            /\ UNCHANGED <<pc, loc>>
       ELSE /\ pc' = [pc EXCEPT ![u] = "co_loop"]
            /\ loc' = [loc EXCEPT ![u] =
                         [IdleLoc EXCEPT !.user = u, !.snap = NewOrder(u, cart[u]),
                                         !.lines = cart[u],
                                         !.todo = {p \in Products : cart[u][p] > 0}]]
            /\ UNCHANGED resp
    /\ UNCHANGED <<qty, qty0, hasCart, cart, orders, items, history>>
    /\ UNCHANGED others

\* cart_item.product is fetched; the OrderItem is inserted.
CreateOrderItemRead(r, p) ==
    /\ pc[r] = "co_loop"
    /\ p \in loc[r].todo
    /\ pc' = [pc EXCEPT ![r] = "co_save"]
    /\ loc' = [loc EXCEPT ![r].cur = p, ![r].readQty = qty[p]]
    /\ UNCHANGED <<qty, qty0, hasCart, cart, orders, items, history, resp>>
    /\ UNCHANGED others

\* The rows a request leaves behind when it raises after its writes.  Without
\* a transaction every statement is committed as it runs.
AfterError_Autocommit(r) ==
    [orders  |-> Append(orders, loc[r].snap),
     items   |-> Append(items, [p \in Products |->
                                   IF loc[r].wr[p] # -1 \/ p = loc[r].cur
                                   THEN loc[r].lines[p] ELSE 0]),
     history |-> Append(history, <<loc[r].snap.status>>),
     qty     |-> [p \in Products |-> IF loc[r].wr[p] # -1 THEN loc[r].wr[p] ELSE qty[p]]]

\* @transaction.atomic: the exception rolls back every write of the request.
AfterError(r) ==
    [orders |-> orders, items |-> items, history |-> history, qty |-> qty]

DecrementedQuantity_Unchanged(read, n) == read

\* cart_item.product.quantity -= cart_item.quantity
DecrementedQuantity(read, n) == read - n

\* product.quantity -= quantity; product.save().  A value the column refuses
\* raises IntegrityError, which rolls the transaction back.
CreateOrderItemSave(r) ==
    /\ pc[r] = "co_save"
    /\ ~RowLocked(r, loc[r].cur)
    /\ LET p   == loc[r].cur
           new == DecrementedQuantity(loc[r].readQty, loc[r].lines[p])
       IN  IF QuantityColumnAccepts(new)
           THEN /\ pc' = [pc EXCEPT ![r] = "co_loop"]
                /\ loc' = [loc EXCEPT ![r].wr[p] = new,
                                      ![r].todo = loc[r].todo \ {p},
                                      ![r].cur = "none"]
                /\ UNCHANGED <<resp, qty, orders, items, history>>
           ELSE /\ pc' = [pc EXCEPT ![r] = "idle"]
                /\ loc' = [loc EXCEPT ![r] = IdleLoc]
                /\ resp' = "error_500"
                /\ orders' = AfterError(r).orders
                /\ items' = AfterError(r).items
                /\ history' = AfterError(r).history
                /\ qty' = AfterError(r).qty
    /\ UNCHANGED <<qty0, hasCart, cart>>
    /\ UNCHANGED others

\* Two transactions each wait for a row the other has written: PostgreSQL
\* aborts one of them.
CreateOrderDeadlock(r) ==
    /\ pc[r] = "co_save"
    /\ \E r2 \in Slots \ {r} :
          /\ pc[r2] = "co_save"
          /\ loc[r2].wr[loc[r].cur] # -1
          /\ loc[r].wr[loc[r2].cur] # -1
    /\ pc' = [pc EXCEPT ![r] = "idle"]
    /\ loc' = [loc EXCEPT ![r] = IdleLoc]
    /\ resp' = "deadlock_500"
    /\ UNCHANGED <<qty, qty0, hasCart, cart, orders, items, history>>
    /\ UNCHANGED others

\* cart.clear() and the commit: the Order, its items, its first history
\* entry, the product rows and the emptied cart become visible together.
CreateOrderCommit(r) ==
    /\ pc[r] = "co_loop"
    /\ loc[r].todo = {}
    /\ orders' = Append(orders, loc[r].snap)
    /\ items' = Append(items, [p \in Products |->
                                  IF loc[r].wr[p] # -1 THEN loc[r].lines[p] ELSE 0])
    /\ history' = Append(history, <<loc[r].snap.status>>)
    /\ qty' = [p \in Products |-> IF loc[r].wr[p] # -1 THEN loc[r].wr[p] ELSE qty[p]]
    /\ cart' = [cart EXCEPT ![loc[r].user] = NoLines]
    /\ pc' = [pc EXCEPT ![r] = "idle"]
    /\ loc' = [loc EXCEPT ![r] = IdleLoc]
    /\ resp' = "created"
    /\ UNCHANGED <<qty0, hasCart>>
    /\ UNCHANGED others

----------------------------------------------------------------------------
\* Cancellation: OrderViewSet.cancel_order_action and Order.cancel_order

can_cancel_IgnoresPayment(o) == o.status \in {"pending", "confirmed"}

can_cancel(o) ==
    o.status \in {"pending", "confirmed"} /\ o.payment_status # "completed"

\* Order.save of an existing row from the instance a handler holds: pre_save
\* reads the stored status, the UPDATE writes every column of the instance,
\* post_save appends a history entry when the status differs from the one read.
SavedHistory(id, new) ==
    IF orders[id].status # new.status
    THEN [history EXCEPT ![id] = Append(@, new.status)]
    ELSE history

\* get_object (the requester's own orders), then the can_cancel checks of the view and of cancel_order.
CancelBegin(r, id) ==
    /\ pc[r] = "idle"
    /\ id \in OrderIds
    /\ orders[id].user = r
    /\ IF can_cancel(orders[id])
       THEN /\ pc' = [pc EXCEPT ![r] = "cx_save"]
            /\ loc' = [loc EXCEPT ![r] = [IdleLoc EXCEPT !.oid = id, !.snap = orders[id]]]
            /\ UNCHANGED resp
       ELSE /\ resp' = "cannot_cancel"
            /\ UNCHANGED <<pc, loc>>
    /\ UNCHANGED <<qty, qty0, hasCart, cart, orders, items, history>>
    /\ UNCHANGED others

\* status = 'cancelled', the note, self.save(); then self.items.all().
CancelSave(r) ==
    /\ pc[r] = "cx_save"
    /\ LET id  == loc[r].oid
           new == [loc[r].snap EXCEPT !.status = "cancelled", !.notes = @ + 1]
       IN  /\ orders' = [orders EXCEPT ![id] = new]
           /\ history' = SavedHistory(id, new)
           /\ loc' = [loc EXCEPT ![r].todo = {p \in Products : items[id][p] > 0}]
    /\ pc' = [pc EXCEPT ![r] = "cx_loop"]
    /\ UNCHANGED <<qty, qty0, hasCart, cart, items, resp>>
    /\ UNCHANGED others

\* item.product is fetched.
CancelItemRead(r, p) ==
    /\ pc[r] = "cx_loop"
    /\ p \in loc[r].todo
    /\ pc' = [pc EXCEPT ![r] = "cx_restore"]
    /\ loc' = [loc EXCEPT ![r].cur = p, ![r].readQty = qty[p]]
    /\ UNCHANGED <<qty, qty0, hasCart, cart, orders, items, history, resp>>
    /\ UNCHANGED others

RestoredQuantity_Twice(read, n) == read + n + n

RestoredQuantity(read, n) == read + n

\* item.product.quantity += item.quantity; item.product.save().
CancelItemSave(r) ==
    /\ pc[r] = "cx_restore"
    /\ ~RowLocked(r, loc[r].cur)
    /\ LET p == loc[r].cur IN
         /\ qty' = [qty EXCEPT ![p] = RestoredQuantity(loc[r].readQty, items[loc[r].oid][p])]
         /\ loc' = [loc EXCEPT ![r].todo = loc[r].todo \ {p}, ![r].cur = "none"]
    /\ pc' = [pc EXCEPT ![r] = "cx_loop"]
    /\ UNCHANGED <<qty0, hasCart, cart, orders, items, history, resp>>
    /\ UNCHANGED others

\* The loop is over: 'Order cancelled successfully'.
CancelDone(r) ==
    /\ pc[r] = "cx_loop"
    /\ loc[r].todo = {}
    /\ pc' = [pc EXCEPT ![r] = "idle"]
    /\ loc' = [loc EXCEPT ![r] = IdleLoc]
    /\ resp' = "cancelled"
    /\ UNCHANGED <<qty, qty0, hasCart, cart, orders, items, history>>
    /\ UNCHANGED others

----------------------------------------------------------------------------
\* The order engine: carts, order creation and cancellation

Init ==
    /\ qty = InitialStock
    /\ qty0 = qty
    /\ hasCart = [u \in Users |-> TRUE]
    /\ cart = [u \in Users |-> NoLines]
    /\ orders = <<>>
    /\ items = <<>>
    /\ history = <<>>
    /\ pc = [r \in Slots |-> "idle"]
    /\ loc = [r \in Slots |-> IdleLoc]
    /\ resp = "none"
    /\ payments = <<>>
    /\ transactions = <<>>
    /\ webhooks = <<>>
    /\ nReq = 0
    /\ successOnly = TRUE
    /\ overlapped = FALSE
    /\ numbers = <<>>
    /\ today = 1

Next ==
    \/ \E u \in Users, p \in Products, q \in 1..MaxQuantity : AddItem(u, p, q)
    \/ \E u \in Users : CreateOrderBegin(u)
    \/ \E r \in Users, p \in Products : CreateOrderItemRead(r, p)
    \/ \E r \in Users : CreateOrderItemSave(r)
    \/ \E r \in Users : CreateOrderDeadlock(r)
    \/ \E r \in Users : CreateOrderCommit(r)
    \/ \E r \in Users, id \in 1..MaxOrders : CancelBegin(r, id)
    \/ \E r \in Users : CancelSave(r)
    \/ \E r \in Users, p \in Products : CancelItemRead(r, p)
    \/ \E r \in Users : CancelItemSave(r)
    \/ \E r \in Users : CancelDone(r)

Spec == Init /\ [][Next]_vars

----------------------------------------------------------------------------
\* Order maintenance: the order update endpoint, the admin order-update view,
\* the admin bulk actions and Order.mark_as_delivered

Statuses ==
    {"pending", "confirmed", "processing", "shipped", "out_for_delivery",
     "delivered", "cancelled", "refunded"}

PaymentStatuses == {"pending", "processing", "completed", "failed", "refunded"}

\* The users with is_staff set.
Staff == {"u2"}

MoneyFields == {"subtotal", "shipping_cost", "tax_amount", "discount_amount", "total_amount"}

\* The writable fields of OrderSerializer and of OrderUpdateSerializer that the model carries.
OrderSerializerFields == {"status", "payment_status"} \cup MoneyFields

OrderUpdateSerializerFields == {"status", "payment_status"}

\* OrderViewSet.get_serializer_class for update and partial_update.
get_serializer_class(u) ==
    IF u \in Staff THEN OrderUpdateSerializerFields ELSE OrderSerializerFields

\* Amounts a request body may carry, in kobo.
AmountInputs == {0, 100}

\* The values a serializer field accepts.
FieldInputs(f) ==
    IF f = "status" THEN Statuses
    ELSE IF f = "payment_status" THEN PaymentStatuses
    ELSE AmountInputs

\* PATCH /orders/{id}/ by the order's owner: get_object on the requester's own
\* orders, ModelSerializer.update sets the field and saves; the staff
\* serializer then creates a history row of its own when the status changed.
UpdateOrder(u, id, f, v) ==
    /\ pc[u] = "idle"
    /\ nReq < MaxUpdates
    /\ id \in OrderIds
    /\ orders[id].user = u
    /\ f \in get_serializer_class(u)
    /\ v \in FieldInputs(f)
    /\ LET new   == [orders[id] EXCEPT ![f] = v]
           saved == SavedHistory(id, new)
       IN  /\ orders' = [orders EXCEPT ![id] = new]
           /\ history' = IF u \in Staff /\ orders[id].status # new.status
                         THEN [saved EXCEPT ![id] = Append(@, new.status)]
                         ELSE saved
    /\ nReq' = nReq + 1
    /\ resp' = "updated"
    /\ UNCHANGED <<qty, qty0, hasCart, cart, items, pc, loc, payState>>
    /\ UNCHANGED numState

\* AdminOrderUpdateView.patch by a staff user on any order: order.status = new_status; order.save().
AdminOrderUpdate(u, id, st) ==
    /\ pc[u] = "idle"
    /\ nReq < MaxUpdates
    /\ u \in Staff
    /\ id \in OrderIds
    /\ LET new == [orders[id] EXCEPT !.status = st]
       IN  /\ orders' = [orders EXCEPT ![id] = new]
           /\ history' = SavedHistory(id, new)
    /\ nReq' = nReq + 1
    /\ resp' = "updated"
    /\ UNCHANGED <<qty, qty0, hasCart, cart, items, pc, loc, payState>>
    /\ UNCHANGED numState

BulkActionStatuses == {"confirmed", "processing", "shipped"}

\* OrderAdmin.mark_as_confirmed, mark_as_processing and mark_as_shipped:
\* queryset.update(status=...) on the selected orders, which sends no signal.
AdminBulkMark(sel, st) ==
    /\ nReq < MaxUpdates
    /\ sel # {}
    /\ sel \subseteq OrderIds
    /\ orders' = [o \in OrderIds |-> IF o \in sel THEN [orders[o] EXCEPT !.status = st]
                                     ELSE orders[o]]
    /\ nReq' = nReq + 1
    /\ UNCHANGED <<qty, qty0, hasCart, cart, items, history, pc, loc, resp, payState>>
    /\ UNCHANGED numState

\* Order.mark_as_delivered: status = 'delivered'; self.save().
mark_as_delivered(id) ==
    /\ nReq < MaxUpdates
    /\ id \in OrderIds
    /\ LET new == [orders[id] EXCEPT !.status = "delivered"]
       IN  /\ orders' = [orders EXCEPT ![id] = new]
           /\ history' = SavedHistory(id, new)
    /\ nReq' = nReq + 1
    /\ UNCHANGED <<qty, qty0, hasCart, cart, items, pc, loc, resp, payState>>
    /\ UNCHANGED numState

\* The lines of the order that is already placed when maintenance starts.
PlacedLines == [p \in Products |-> 1]

\* One user has placed an order for PlacedLines through create-order.
OpsInit ==
    /\ qty0 = InitialStock
    /\ qty = [p \in Products |-> InitialStock[p] - PlacedLines[p]]
    /\ hasCart = [u \in Users |-> TRUE]
    /\ cart = [u \in Users |-> NoLines]
    /\ \E u \in Users : orders = <<NewOrder(u, PlacedLines)>>
    /\ items = <<PlacedLines>>
    /\ history = << <<"pending">> >>
    /\ pc = [r \in Slots |-> "idle"]
    /\ loc = [r \in Slots |-> IdleLoc]
    /\ resp = "created"
    /\ payments = <<>>
    /\ transactions = <<>>
    /\ webhooks = <<>>
    /\ nReq = 0
    /\ successOnly = TRUE
    /\ overlapped = FALSE
    /\ numbers = <<>>
    /\ today = 1

OpsNext ==
    \/ \E r \in Users, id \in 1..MaxOrders : CancelBegin(r, id)
    \/ \E r \in Users : CancelSave(r)
    \/ \E r \in Users, p \in Products : CancelItemRead(r, p)
    \/ \E r \in Users : CancelItemSave(r)
    \/ \E r \in Users : CancelDone(r)
    \/ \E u \in Users, id \in 1..MaxOrders, f \in OrderSerializerFields :
           \E v \in FieldInputs(f) : UpdateOrder(u, id, f, v)
    \/ \E u \in Users, id \in 1..MaxOrders, st \in Statuses : AdminOrderUpdate(u, id, st)
    \/ \E sel \in SUBSET (1..MaxOrders), st \in BulkActionStatuses : AdminBulkMark(sel, st)
    \/ \E id \in 1..MaxOrders : mark_as_delivered(id)

OpsSpec == OpsInit /\ [][OpsNext]_vars

\* DELETE /orders/{order_number}/ by the order's owner: OrderViewSet is a
\* ModelViewSet and keeps its destroy action; get_object on the requester's
\* own orders, instance.delete(), and the OrderItem and OrderStatusHistory
\* rows go with the order (on_delete=CASCADE).  No quantity is given back.
\* A deleted row is NoOrder; no Payment exists where this action is used.
DestroyOrder(u, id) ==
    /\ pc[u] = "idle"
    /\ id \in OrderIds
    /\ orders[id].user = u
    /\ orders' = [orders EXCEPT ![id] = NoOrder]
    /\ items' = [items EXCEPT ![id] = NoLines]
    /\ history' = [history EXCEPT ![id] = <<>>]
    /\ resp' = "deleted_204"
    /\ UNCHANGED <<qty, qty0, hasCart, cart, pc, loc>>
    /\ UNCHANGED others

\* What the owner of a placed order can do with it through the order API.
OwnerNext ==
    \/ \E r \in Users, id \in 1..MaxOrders : CancelBegin(r, id)
    \/ \E r \in Users : CancelSave(r)
    \/ \E r \in Users, p \in Products : CancelItemRead(r, p)
    \/ \E r \in Users : CancelItemSave(r)
    \/ \E r \in Users : CancelDone(r)
    \/ \E u \in Users, id \in 1..MaxOrders, f \in OrderSerializerFields :
           \E v \in FieldInputs(f) : UpdateOrder(u, id, f, v)
    \/ \E u \in Users, id \in 1..MaxOrders : DestroyOrder(u, id)

OwnerSpec == OpsInit /\ [][OwnerNext]_vars

----------------------------------------------------------------------------
\* Payment reconciliation: PaymentViewSet.verify and paystack_webhook

\* The references a request may name; only those of stored payments are known.
References == 1..2

PaymentIds == 1..Len(payments)

\* Payment.objects.get(reference=..., user=...) of verify and
\* Payment.objects.get(reference=...) of the webhook; reference is unique.
PaymentKnown(ref) == \E pid \in PaymentIds : payments[pid].reference = ref

PaymentByReference(ref) == CHOOSE pid \in PaymentIds : payments[pid].reference = ref

PaymentOf(ref, u) == PaymentKnown(ref) /\ payments[PaymentByReference(ref)].user = u

\* f"order_{order_id}_{Order.objects.get(id=order_id).id}": the reference
\* that initialize sends for an order, which the gateway gives back.
ReferenceFor(oid) == oid

already_completed_Never(p) == FALSE

\* The guards payment.status == 'completed' of verify and
\* payment.status != 'completed' of the webhook.
already_completed(p) == p.status = "completed"

ReconcilingUsers == {u \in Users : pc[u] \in {"vf_gateway", "vf_order", "vf_save"}}

WebhookReconciling == pc[Gateway] \in {"wh_pay", "wh_order", "wh_save"}

\* verify up to the gateway call: the reference, the payment of the
\* requester, the short circuit on a completed payment.
VerifyBegin(u, ref) ==
    /\ pc[u] = "idle"
    /\ nReq < MaxDeliveries
    /\ nReq' = nReq + 1
    /\ IF ~PaymentOf(ref, u)
       THEN /\ resp' = "payment_not_found"
            /\ UNCHANGED <<pc, loc, overlapped>>
       ELSE IF already_completed(payments[PaymentByReference(ref)])
       THEN /\ resp' = "already_verified"
            /\ UNCHANGED <<pc, loc, overlapped>>
       ELSE /\ pc' = [pc EXCEPT ![u] = "vf_gateway"]
            /\ loc' = [loc EXCEPT ![u] = [IdleLoc EXCEPT !.pid = PaymentByReference(ref)]]
            /\ overlapped' = (overlapped \/ WebhookReconciling)
            /\ UNCHANGED resp
    /\ UNCHANGED <<persisted, qty0, payments, transactions, webhooks, successOnly>>
    /\ UNCHANGED numState

GatewayOutcomes == {"success", "declined", "unreachable"}

StatusAfterGateway_DeclineCompletes(outcome, old) ==
    IF outcome \in {"success", "declined"} THEN "completed" ELSE old

StatusAfterGateway_ErrorFails(outcome, old) ==
    IF outcome = "success" THEN "completed" ELSE "failed"

\* The status verify stores for the payment: completed when the gateway
\* reports success, failed when it reports anything else, and none (the
\* stored one stays) when the call raises.
StatusAfterGateway(outcome, old) ==
    IF outcome = "success" THEN "completed"
    ELSE IF outcome = "declined" THEN "failed"
    ELSE old

\* PaystackService.verify_transaction answers, then payment.save(): an
\* unreachable gateway raises and the handler answers 500, a charge that is
\* not successful stores failed, a successful one stores completed.
VerifyGateway(u, outcome) ==
    /\ pc[u] = "vf_gateway"
    /\ IF outcome = "unreachable"
       THEN /\ pc' = [pc EXCEPT ![u] = "idle"]
            /\ loc' = [loc EXCEPT ![u] = IdleLoc]
            /\ resp' = "verify_error_500"
            /\ successOnly' = FALSE
       ELSE IF outcome = "declined"
       THEN /\ pc' = [pc EXCEPT ![u] = "idle"]
            /\ loc' = [loc EXCEPT ![u] = IdleLoc]
            /\ resp' = "verification_failed"
            /\ successOnly' = FALSE
       ELSE /\ pc' = [pc EXCEPT ![u] = "vf_order"]
            /\ UNCHANGED <<loc, resp, successOnly>>
    /\ payments' = [payments EXCEPT ![loc[u].pid].status = StatusAfterGateway(outcome, @)]
    /\ UNCHANGED <<persisted, qty0, transactions, webhooks, nReq, overlapped>>
    /\ UNCHANGED numState

\* order = payment.order, and the stored status that pre_save reads for order.save().
VerifyOrderRead(u) ==
    /\ pc[u] = "vf_order"
    /\ LET id == payments[loc[u].pid].order IN
         loc' = [loc EXCEPT ![u].oid = id, ![u].snap = orders[id]]
    /\ pc' = [pc EXCEPT ![u] = "vf_save"]
    /\ UNCHANGED <<persisted, qty0, resp, payState, nReq>>
    /\ UNCHANGED numState

\* The history that post_save leaves when a handler stores the status
\* confirmed on the instance it read.
ConfirmedHistory(r) ==
    IF loc[r].snap.status # "confirmed"
    THEN [history EXCEPT ![loc[r].oid] = Append(@, "confirmed")]
    ELSE history

\* order.status = 'confirmed'; order.save(); the verification Transaction;
\* Cart.objects.filter(user=request.user).delete().
VerifySave(u) ==
    /\ pc[u] = "vf_save"
    /\ orders' = [orders EXCEPT ![loc[u].oid] = [loc[u].snap EXCEPT !.status = "confirmed"]]
    /\ history' = ConfirmedHistory(u)
    /\ transactions' = Append(transactions,
           [payment |-> loc[u].pid, type |-> "verification", status |-> "completed",
            reference |-> payments[loc[u].pid].reference])
    /\ hasCart' = [hasCart EXCEPT ![u] = FALSE]
    /\ cart' = [cart EXCEPT ![u] = NoLines]
    /\ pc' = [pc EXCEPT ![u] = "idle"]
    /\ loc' = [loc EXCEPT ![u] = IdleLoc]
    /\ resp' = "verified"
    /\ UNCHANGED <<qty, qty0, items, payments, webhooks, nReq, successOnly, overlapped>>
    /\ UNCHANGED numState

Signatures == {"missing", "invalid", "non_ascii", "valid"}

Events == {"charge.success", "charge.failed", "other"}

\* PaystackService.verify_webhook_signature on a present signature.
verify_webhook_signature(sig) == sig = "valid"

\* hmac.compare_digest raises TypeError for a str with a character outside
\* ASCII, which a header value can hold.
compare_digest_raises(sig) == sig = "non_ascii"

\* A variant that logs only the events the handler acts on.
LoggedWebhook_HandledEventsOnly(event, processed) ==
    IF event = "other" THEN webhooks
    ELSE Append(webhooks, [event |-> event, processed |-> processed])

\* PaymentWebhook.objects.create(event_type, data, signature, processed):
\* the audit rows after the insert, which autocommit makes durable at once.
LoggedWebhook(event, processed) ==
    Append(webhooks, [event |-> event, processed |-> processed])

\* paystack_webhook up to the first write of a charge.success (an exception
\* is answered 500 by the handler's outer except): the signature,
\* the PaymentWebhook row, the payment read; a charge.failed stores failed,
\* and whatever needs no more work is marked processed and answered 200.
WebhookBegin(sig, event, ref) ==
    /\ pc[Gateway] = "idle"
    /\ nReq < MaxDeliveries
    /\ nReq' = nReq + 1
    /\ IF sig # "missing" /\ compare_digest_raises(sig)
       THEN /\ resp' = "webhook_error_500"
            /\ UNCHANGED <<pc, loc, payments, webhooks, successOnly, overlapped>>
       ELSE IF sig = "missing" \/ ~verify_webhook_signature(sig)
       THEN /\ resp' = "bad_signature_400"
            /\ UNCHANGED <<pc, loc, payments, webhooks, successOnly, overlapped>>
       ELSE IF event = "charge.success" /\ PaymentKnown(ref)
                 /\ ~already_completed(payments[PaymentByReference(ref)])
       THEN /\ webhooks' = LoggedWebhook(event, FALSE)
            /\ pc' = [pc EXCEPT ![Gateway] = "wh_pay"]
            /\ loc' = [loc EXCEPT ![Gateway] =
                          [IdleLoc EXCEPT !.pid = PaymentByReference(ref),
                                          !.wid = Len(webhooks) + 1]]
            /\ overlapped' = (overlapped \/ ReconcilingUsers # {})
            /\ UNCHANGED <<payments, resp, successOnly>>
       ELSE /\ webhooks' = LoggedWebhook(event, TRUE)
            /\ resp' = "webhook_ok"
            /\ IF event = "charge.failed" /\ PaymentKnown(ref)
               THEN /\ payments' = [payments EXCEPT ![PaymentByReference(ref)].status = "failed"]
                    /\ successOnly' = FALSE
               ELSE UNCHANGED <<payments, successOnly>>
            /\ UNCHANGED <<pc, loc, overlapped>>
    /\ UNCHANGED <<persisted, qty0, transactions>>
    /\ UNCHANGED numState

\* payment.status = 'completed'; payment.save().
WebhookPaymentSave ==
    /\ pc[Gateway] = "wh_pay"
    /\ payments' = [payments EXCEPT ![loc[Gateway].pid].status = "completed"]
    /\ pc' = [pc EXCEPT ![Gateway] = "wh_order"]
    /\ UNCHANGED <<persisted, qty0, loc, resp, transactions, webhooks, nReq,
                   successOnly, overlapped>>
    /\ UNCHANGED numState

\* order = payment.order, and the stored status that pre_save reads for order.save().
WebhookOrderRead ==
    /\ pc[Gateway] = "wh_order"
    /\ LET id == payments[loc[Gateway].pid].order IN
         loc' = [loc EXCEPT ![Gateway].oid = id, ![Gateway].snap = orders[id]]
    /\ pc' = [pc EXCEPT ![Gateway] = "wh_save"]
    /\ UNCHANGED <<persisted, qty0, resp, payState, nReq>>
    /\ UNCHANGED numState

\* order.status = 'confirmed'; order.save(); the webhook_confirmation
\* Transaction; webhook.processed = True; 200.
WebhookSave ==
    /\ pc[Gateway] = "wh_save"
    /\ orders' = [orders EXCEPT ![loc[Gateway].oid] =
                     [loc[Gateway].snap EXCEPT !.status = "confirmed"]]
    /\ history' = ConfirmedHistory(Gateway)
    /\ transactions' = Append(transactions,
           [payment |-> loc[Gateway].pid, type |-> "webhook_confirmation",
            status |-> "completed", reference |-> payments[loc[Gateway].pid].reference])
    /\ webhooks' = [webhooks EXCEPT ![loc[Gateway].wid].processed = TRUE]
    /\ pc' = [pc EXCEPT ![Gateway] = "idle"]
    /\ loc' = [loc EXCEPT ![Gateway] = IdleLoc]
    /\ resp' = "webhook_ok"
    /\ UNCHANGED <<qty, qty0, hasCart, cart, items, payments, nReq, successOnly, overlapped>>
    /\ UNCHANGED numState

\* A statement of the charge.success processing raises (the database refuses
\* or loses the statement): the outer except of paystack_webhook logs the
\* error and answers 500.  What the handler committed before stays, and the
\* PaymentWebhook row stays unprocessed.
WebhookProcessingError ==
    /\ pc[Gateway] \in {"wh_pay", "wh_order", "wh_save"}
    /\ pc' = [pc EXCEPT ![Gateway] = "idle"]
    /\ loc' = [loc EXCEPT ![Gateway] = IdleLoc]
    /\ resp' = "webhook_error_500"
    /\ UNCHANGED <<persisted, qty0, payState, nReq>>
    /\ UNCHANGED numState

\* A user has placed an order for PlacedLines and initialized its payment:
\* the Payment and its payment Transaction are pending.
PayInit ==
    /\ qty0 = InitialStock
    /\ qty = [p \in Products |-> InitialStock[p] - PlacedLines[p]]
    /\ hasCart = [u \in Users |-> TRUE]
    /\ cart = [u \in Users |-> NoLines]
    /\ \E u \in Users :
          /\ orders = <<NewOrder(u, PlacedLines)>>
          /\ payments = <<[order |-> 1, user |-> u, status |-> "pending",
                            reference |-> ReferenceFor(1)]>>
    /\ items = <<PlacedLines>>
    /\ history = << <<"pending">> >>
    /\ pc = [r \in Slots |-> "idle"]
    /\ loc = [r \in Slots |-> IdleLoc]
    /\ resp = "initialized"
    /\ transactions = <<[payment |-> 1, type |-> "payment", status |-> "pending",
                          reference |-> ReferenceFor(1)]>>
    /\ webhooks = <<>>
    /\ nReq = 0
    /\ successOnly = TRUE
    /\ overlapped = FALSE
    /\ numbers = <<>>
    /\ today = 1

PayNext ==
    \/ \E u \in Users, ref \in References : VerifyBegin(u, ref)
    \/ \E u \in Users, outcome \in GatewayOutcomes : VerifyGateway(u, outcome)
    \/ \E u \in Users : VerifyOrderRead(u)
    \/ \E u \in Users : VerifySave(u)
    \/ \E sig \in Signatures, event \in Events, ref \in References :
           WebhookBegin(sig, event, ref)
    \/ WebhookPaymentSave
    \/ WebhookOrderRead
    \/ WebhookSave

PaySpec == PayInit /\ [][PayNext]_vars

\* The webhook and verify when a statement of the processing can fail.
FaultNext ==
    \/ PayNext
    \/ WebhookProcessingError

FaultSpec == PayInit /\ [][FaultNext]_vars

\* The shop goes on while the payment is reconciled: the users fill their
\* carts and place further orders.
CartPayNext ==
    \/ PayNext
    \/ \E u \in Users, p \in Products, q \in 1..MaxQuantity : AddItem(u, p, q)
    \/ \E u \in Users : CreateOrderBegin(u)
    \/ \E r \in Users, p \in Products : CreateOrderItemRead(r, p)
    \/ \E r \in Users : CreateOrderItemSave(r)
    \/ \E r \in Users : CreateOrderCommit(r)

CartPaySpec == PayInit /\ [][CartPayNext]_vars

\* The owner can cancel the order while its payment is reconciled.
CancelPayNext ==
    \/ PayNext
    \/ \E r \in Users, id \in 1..MaxOrders : CancelBegin(r, id)
    \/ \E r \in Users : CancelSave(r)
    \/ \E r \in Users, p \in Products : CancelItemRead(r, p)
    \/ \E r \in Users : CancelItemSave(r)
    \/ \E r \in Users : CancelDone(r)

CancelPaySpec == PayInit /\ [][CancelPayNext]_vars

----------------------------------------------------------------------------
\* Payment initialization: PaymentViewSet.initialize

order_is_pending_Always(o) == TRUE

\* The check order.status != 'pending' of initialize.
order_is_pending(o) == o.status = "pending"

\* initialize up to the gateway call: Order.objects.get(id=order_id,
\* user=request.user) and the status check.
InitializeBegin(u, oid) ==
    /\ pc[u] = "idle"
    /\ nReq < MaxDeliveries
    /\ nReq' = nReq + 1
    /\ IF ~(oid \in OrderIds /\ orders[oid].user = u)
       THEN /\ resp' = "order_not_found"
            /\ UNCHANGED <<pc, loc>>
       ELSE IF ~order_is_pending(orders[oid])
       THEN /\ resp' = "order_not_pending"
            /\ UNCHANGED <<pc, loc>>
       ELSE /\ pc' = [pc EXCEPT ![u] = "in_gateway"]
            /\ loc' = [loc EXCEPT ![u] = [IdleLoc EXCEPT !.oid = oid]]
            /\ UNCHANGED resp
    /\ UNCHANGED <<persisted, qty0, payState, numState>>

InitializeOutcomes == {"accepted", "rejected", "unreachable"}

\* PaystackService.initialize_transaction answers.  A call that raises is
\* answered 500 and a response whose status is false 400; an accepted request
\* creates the Payment and its payment Transaction with the reference of the
\* response, unless a Payment already has that reference: then the INSERT
\* fails on the unique index and the handler answers 500.
InitializeGateway(u, outcome) ==
    /\ pc[u] = "in_gateway"
    /\ pc' = [pc EXCEPT ![u] = "idle"]
    /\ loc' = [loc EXCEPT ![u] = IdleLoc]
    /\ LET reference == ReferenceFor(loc[u].oid) IN
         IF outcome = "unreachable"
         THEN /\ resp' = "initialize_error_500"
              /\ UNCHANGED <<payments, transactions>>
         ELSE IF outcome = "rejected"
         THEN /\ resp' = "initialize_rejected"
              /\ UNCHANGED <<payments, transactions>>
         ELSE IF PaymentKnown(reference)
         THEN /\ resp' = "initialize_error_500"
              /\ UNCHANGED <<payments, transactions>>
         ELSE /\ payments' = Append(payments,
                     [order |-> loc[u].oid, user |-> u, status |-> "pending",
                      reference |-> reference])
              /\ transactions' = Append(transactions,
                     [payment |-> Len(payments) + 1, type |-> "payment",
                      status |-> "pending", reference |-> reference])
              /\ resp' = "initialized"
    /\ UNCHANGED <<persisted, qty0, webhooks, nReq, successOnly, overlapped, numState>>

InitializeNext ==
    \/ \E u \in Users, oid \in 1..MaxOrders : InitializeBegin(u, oid)
    \/ \E u \in Users, outcome \in InitializeOutcomes : InitializeGateway(u, outcome)
    \/ \E u \in Users, ref \in References : VerifyBegin(u, ref)
    \/ \E u \in Users, outcome \in GatewayOutcomes : VerifyGateway(u, outcome)
    \/ \E u \in Users : VerifyOrderRead(u)
    \/ \E u \in Users : VerifySave(u)

\* Initialization and verification for the order that OpsInit has placed.
InitializeSpec == OpsInit /\ [][InitializeNext]_vars

----------------------------------------------------------------------------
\* Order numbers: Order.save and Order.generate_order_number for the Order
\* that create-order inserts inside its transaction

MaxSaves  == 3
MaxSerial == 1
MaxDay    == 2

\* The values of the five random digits.
Serials == 0..MaxSerial

\* f"ORD-{date_str}-{random_str}"
OrderNumber(date, serial) == [prefix |-> "ORD", date |-> date, serial |-> serial]

\* Order.objects.filter(order_number=...).exists(): the committed rows.
NumberExists(n) == \E i \in 1..Len(numbers) : numbers[i] = n

UniqueViolation_Never(n) == FALSE

\* unique=True on order_number: the INSERT of a number that a committed row holds fails.
UniqueViolation(n) == NumberExists(n)

\* The INSERT waits while another open transaction has inserted the same number.
UniqueWait(r) == \E r2 \in Slots \ {r} : pc[r2] = "on_commit" /\ loc[r2].num = loc[r].num

\* generate_order_number: a candidate of today's date and random digits,
\* drawn again while a row with it exists.
GenerateOrderNumber(r, serial) ==
    /\ pc[r] = "idle"
    /\ nReq < MaxSaves
    /\ ~NumberExists(OrderNumber(today, serial))
    /\ pc' = [pc EXCEPT ![r] = "on_insert"]
    /\ loc' = [loc EXCEPT ![r] = [IdleLoc EXCEPT !.num = OrderNumber(today, serial)]]
    /\ nReq' = nReq + 1
    /\ UNCHANGED <<persisted, qty0, resp, payState, numState>>

\* super().save(): the INSERT of the Order row.
InsertOrder(r) ==
    /\ pc[r] = "on_insert"
    /\ ~UniqueWait(r)
    /\ IF UniqueViolation(loc[r].num)
       THEN /\ pc' = [pc EXCEPT ![r] = "idle"]
            /\ loc' = [loc EXCEPT ![r] = IdleLoc]
            /\ resp' = "duplicate_500"
       ELSE /\ pc' = [pc EXCEPT ![r] = "on_commit"]
            /\ UNCHANGED <<loc, resp>>
    /\ UNCHANGED <<persisted, qty0, payState, nReq, numState>>

\* The transaction of create-order commits.
CommitOrder(r) ==
    /\ pc[r] = "on_commit"
    /\ numbers' = Append(numbers, loc[r].num)
    /\ pc' = [pc EXCEPT ![r] = "idle"]
    /\ loc' = [loc EXCEPT ![r] = IdleLoc]
    /\ resp' = "created"
    /\ UNCHANGED <<persisted, qty0, payState, nReq, today>>

\* The transaction of create-order rolls back after the INSERT.
RollbackOrder(r) ==
    /\ pc[r] = "on_commit"
    /\ pc' = [pc EXCEPT ![r] = "idle"]
    /\ loc' = [loc EXCEPT ![r] = IdleLoc]
    /\ resp' = "error_500"
    /\ UNCHANGED <<persisted, qty0, payState, nReq, numState>>

\* Midnight passes.
NextDay ==
    /\ today < MaxDay
    /\ today' = today + 1
    /\ UNCHANGED <<persisted, qty0, pc, loc, resp, payState, nReq, numbers>>

NumberNext ==
    \/ \E r \in Users, serial \in Serials : GenerateOrderNumber(r, serial)
    \/ \E r \in Users : InsertOrder(r)
    \/ \E r \in Users : CommitOrder(r)
    \/ \E r \in Users : RollbackOrder(r)
    \/ NextDay

NumberSpec == Init /\ [][NumberNext]_vars

-----------------------------------------------------------------------------
\* The cart's methods, called with any quantity

\* The quantities a caller of the model's methods can pass.
QuantityInputs == (0 - 1)..MaxQuantity

new_quantity_Replace(old, q) == q

\* new_quantity = cart_item.quantity + quantity.
new_quantity(old, q) == old + q

\* Cart.add_item raises ValidationError: the product is unavailable, the
\* stock is below the quantity asked for, and then either get_or_create
\* inserts the line through CartItem.save (full_clean), or the line exists,
\* the stock is compared with the new quantity and the line is saved.
add_item_raises(lines, p, q) ==
    \/ ~is_available(p)
    \/ stock_quantity(p) < q
    \/ IF lines[p] = 0
       THEN ~CartItemClean(p, q)
       ELSE \/ stock_quantity(p) < new_quantity(lines[p], q)
            \/ ~CartItemClean(p, new_quantity(lines[p], q))

\* The lines of a cart after add_item(p, q).
add_item_lines(lines, p, q) ==
    IF add_item_raises(lines, p, q) THEN lines
    ELSE [lines EXCEPT ![p] = IF @ = 0 THEN q ELSE new_quantity(@, q)]

add_item(u, p, q) ==
    /\ hasCart[u]
    /\ cart' = [cart EXCEPT ![u] = add_item_lines(@, p, q)]
    /\ resp' = IF add_item_raises(cart[u], p, q) THEN "add_item_error" ELSE "added"
    /\ UNCHANGED <<qty, qty0, hasCart, orders, items, history, pc, loc>>
    /\ UNCHANGED others

remove_item(u, p) ==
    /\ hasCart[u]
    /\ cart' = [cart EXCEPT ![u][p] = 0]
    /\ resp' = "removed"
    /\ UNCHANGED <<qty, qty0, hasCart, orders, items, history, pc, loc>>
    /\ UNCHANGED others

\* A quantity <= 0 removes the line; otherwise the stock check, and the
\* line, if there is one, is saved with the quantity.
update_item_quantity(u, p, q) ==
    /\ hasCart[u]
    /\ IF q <= 0
       THEN /\ cart' = [cart EXCEPT ![u][p] = 0]
            /\ resp' = "removed"
       ELSE IF stock_quantity(p) < q
       THEN /\ resp' = "update_error"
            /\ UNCHANGED cart
       ELSE IF cart[u][p] > 0 /\ CartItemClean(p, q)
       THEN /\ cart' = [cart EXCEPT ![u][p] = q]
            /\ resp' = "updated"
       ELSE /\ resp' = "no_line"
            /\ UNCHANGED cart
    /\ UNCHANGED <<qty, qty0, hasCart, orders, items, history, pc, loc>>
    /\ UNCHANGED others

clear(u) ==
    /\ hasCart[u]
    /\ cart' = [cart EXCEPT ![u] = NoLines]
    /\ resp' = "cleared"
    /\ UNCHANGED <<qty, qty0, hasCart, orders, items, history, pc, loc>>
    /\ UNCHANGED others

\* add_item for every line of the other cart, a ValidationError skips the
\* line; then other_cart.delete().
merge_with_cart(u, other) ==
    /\ u # other
    /\ hasCart[u]
    /\ hasCart[other]
    /\ cart' = [cart EXCEPT
                   ![u] = [p \in Products |->
                             IF cart[other][p] > 0
                             THEN add_item_lines(cart[u], p, cart[other][p])[p]
                             ELSE cart[u][p]],
                   ![other] = NoLines]
    /\ hasCart' = [hasCart EXCEPT ![other] = FALSE]
    /\ resp' = "merged"
    /\ UNCHANGED <<qty, qty0, orders, items, history, pc, loc>>
    /\ UNCHANGED others

\* Every user has an empty cart; the products have any stock.
CartInit ==
    /\ qty \in [Products -> 0..MaxQuantity]
    /\ qty0 = qty
    /\ hasCart = [u \in Users |-> TRUE]
    /\ cart = [u \in Users |-> NoLines]
    /\ orders = <<>>
    /\ items = <<>>
    /\ history = <<>>
    /\ pc = [r \in Slots |-> "idle"]
    /\ loc = [r \in Slots |-> IdleLoc]
    /\ resp = "none"
    /\ payments = <<>>
    /\ transactions = <<>>
    /\ webhooks = <<>>
    /\ nReq = 0
    /\ successOnly = TRUE
    /\ overlapped = FALSE
    /\ numbers = <<>>
    /\ today = 1

CartNext ==
    \/ \E u \in Users, p \in Products, q \in QuantityInputs : add_item(u, p, q)
    \/ \E u \in Users, p \in Products : remove_item(u, p)
    \/ \E u \in Users, p \in Products, q \in QuantityInputs : update_item_quantity(u, p, q)
    \/ \E u \in Users : clear(u)
    \/ \E u, other \in Users : merge_with_cart(u, other)

CartSpec == CartInit /\ [][CartNext]_vars


----------------------------------------------------------------------------
\* Properties of the order engine

AllIdle == \A r \in Slots : pc[r] = "idle"

\* The units of product p held by orders that are not cancelled.
Reserved(p) ==
    SumOver([o \in OrderIds |-> IF orders[o].status # "cancelled" THEN items[o][p] ELSE 0],
            OrderIds)

\* C1: two create-order requests of different users for the last unit of a
\* product never both succeed: while no order is cancelled, a product that
\* started with one unit is an item of the orders of at most one user.
C1_LastUnitSoldOnce ==
    \A p \in Products :
        (qty0[p] = 1 /\ \A o \in OrderIds : orders[o].status # "cancelled")
            => \A a, b \in OrderIds :
                   (items[a][p] > 0 /\ items[b][p] > 0) => orders[a].user = orders[b].user

\* C2: whenever no request is in flight, the units of a product held by the
\* orders that are not cancelled equal its initial quantity minus its
\* available quantity.
C2_StockLedger ==
    AllIdle => \A p \in Products : Reserved(p) = qty0[p] - qty[p]

\* C3: the persisted available quantity of a product is never negative.
C3_QuantityNeverNegative == \A p \in Products : qty[p] >= 0

\* A decrement below zero was refused and the order creation rolled back.
C3_Witness == resp = "error_500" /\ \E p \in Products : qty[p] = 0

\* The cart has no lines, or a line's product is unavailable, or a line asks
\* for more than is available.
ValidationMustFail(u) ==
    \/ \A p \in Products : cart[u][p] = 0
    \/ \E p \in Products : cart[u][p] > 0 /\ (qty[p] = 0 \/ cart[u][p] > qty[p])

\* C6: a create-order request whose cart fails validation ends at once with
\* an error; no Order, OrderItem or history entry is created, no quantity
\* and no cart line changes.
C6_FailedValidationChangesNothing ==
    [][\A u \in Users :
          (CreateOrderBegin(u) /\ hasCart[u] /\ ValidationMustFail(u))
              => /\ pc'[u] = "idle"
                 /\ resp' \in {"cart_empty", "stock_error"}
                 /\ UNCHANGED persisted]_vars

\* A request was refused for lack of stock after another order took the unit.
C6_Witness ==
    /\ resp = "stock_error"
    /\ Len(orders) = 1
    /\ \E u \in Users : pc[u] = "idle" /\ cart[u]["p1"] = 1 /\ qty["p1"] = 0

----------------------------------------------------------------------------
\* Properties of order maintenance

\* C7: every persisted order has total_amount = subtotal + shipping_cost +
\* tax_amount - discount_amount, at creation and after any order operation,
\* the order update endpoint included.
C7_TotalIsDerived ==
    \A o \in OrderIds :
        orders[o].total_amount =
            orders[o].subtotal + orders[o].shipping_cost + orders[o].tax_amount
                - orders[o].discount_amount

\* The condition under which cancellation is stated to succeed.
Cancellable(o) ==
    o.status \in {"pending", "confirmed"} /\ o.payment_status # "completed"

\* C9: cancel_order goes ahead exactly when the order's status is pending or
\* confirmed and its payment_status is not completed, and it then stores the
\* status cancelled with one more note; otherwise it answers with a failure
\* and leaves status, notes, history and product quantities unchanged.
C9_CancelOnlyWhenAllowed ==
    [][\A u \in Users :
          /\ \A id \in OrderIds :
                CancelBegin(u, id) =>
                    IF Cancellable(orders[id])
                    THEN pc'[u] = "cx_save" /\ UNCHANGED persisted
                    ELSE pc'[u] = "idle" /\ resp' = "cannot_cancel" /\ UNCHANGED persisted
          /\ CancelSave(u) =>
                /\ orders'[loc[u].oid].status = "cancelled"
                /\ orders'[loc[u].oid].notes = loc[u].snap.notes + 1
                /\ Cancellable(loc[u].snap)]_vars

\* Cancellation of a confirmed order whose payment is completed was refused
\* and the stock stayed where the order had left it.
C9_Witness ==
    /\ resp = "cannot_cancel"
    /\ AllIdle
    /\ orders[1].status = "confirmed"
    /\ orders[1].payment_status = "completed"
    /\ qty = [p \in Products |-> InitialStock[p] - PlacedLines[p]]

\* C10: every change of an order's stored status, whoever makes it, appends
\* exactly one history entry carrying the new status, and nothing else adds
\* to the history, so an order's history has one entry more than the number
\* of its status changes.
C10_OneEntryPerStatusChange ==
    [][\A o \in OrderIds :
          IF orders'[o].status # orders[o].status
          THEN history'[o] = Append(history[o], orders'[o].status)
          ELSE history'[o] = history[o]]_vars

C15_FailedDecrementRollsBack ==
    [][\A r \in Users :
          (CreateOrderItemSave(r) /\ loc[r].readQty < loc[r].lines[loc[r].cur])
              => /\ UNCHANGED persisted
                 /\ cart'[r] = loc[r].lines
                 /\ pc'[r] = "idle"
                 /\ resp' = "error_500"]_vars

\* A request for p1 and p2 passed the validation, lost p1's last unit to the
\* other user's order and failed: only that order exists, p2 is untouched and
\* the cart still holds both lines.
C15_Witness ==
    /\ AllIdle
    /\ resp = "error_500"
    /\ Len(orders) = 1
    /\ items[1] = [p \in Products |-> IF p = "p1" THEN 1 ELSE 0]
    /\ qty = [p \in Products |-> IF p = "p1" THEN 0 ELSE 2]
    /\ \E u \in Users \ {orders[1].user} : cart[u] = [p \in Products |-> 1]

\* C24: no operation of the order API deletes an Order or changes or
\* deletes a status history entry: in every step an order that exists goes
\* on existing, and its history keeps every entry it had, in place.
C24_OrdersAndHistoryKept ==
    [][/\ Len(orders') >= Len(orders)
       /\ \A id \in OrderIds :
             orders[id] # NoOrder =>
                 /\ orders'[id] # NoOrder
                 /\ Len(history'[id]) >= Len(history[id])
                 /\ \A i \in DOMAIN history[id] : history'[id][i] = history[id][i]]_vars

\* C29: only staff change an order's status, payment_status or money
\* fields through the update endpoint: an update or partial update by an
\* owner who is not staff leaves status, payment_status, subtotal,
\* shipping_cost, tax_amount, discount_amount and total_amount as stored.
C29_OwnerUpdateKeepsProtectedFields ==
    [][\A u \in Users \ Staff, id \in 1..MaxOrders, f \in OrderSerializerFields :
          \A v \in FieldInputs(f) :
             UpdateOrder(u, id, f, v) =>
                 /\ orders'[id].status = orders[id].status
                 /\ orders'[id].payment_status = orders[id].payment_status
                 /\ \A g \in MoneyFields : orders'[id][g] = orders[id][g]]_vars

\* C13: an order becomes cancelled only from pending or confirmed: no step
\* of an exposed operation moves an order that is processing, shipped, out
\* for delivery, delivered or refunded to cancelled.
C13_CancelledOnlyFromOpen ==
    [][\A o \in OrderIds :
          (orders'[o].status = "cancelled" /\ orders[o].status # "cancelled")
              => orders[o].status \in {"pending", "confirmed"}]_vars

----------------------------------------------------------------------------
\* Properties of payment reconciliation

CompletedTransactions(pid) ==
    Cardinality({i \in 1..Len(transactions) :
                    transactions[i].payment = pid /\ transactions[i].status = "completed"})

ConfirmedEntries(o) ==
    Cardinality({i \in 1..Len(history[o]) : history[o][i] = "confirmed"})

\* C4: when verify and charge.success deliveries for a payment run one after
\* another and the gateway reports success, the payment has at most one
\* completed Transaction and its order at most one history entry for
\* confirmed, exactly one of each once the payment is completed; and a verify
\* or a charge.success delivery that finds the payment completed changes
\* neither the Payment, the Order, the Transactions nor the status history.
C4_IdempotentCompletion ==
    /\ []((successOnly /\ ~overlapped) =>
            \A pid \in PaymentIds :
                /\ CompletedTransactions(pid) <= 1
                /\ ConfirmedEntries(payments[pid].order) <= 1
                /\ (AllIdle /\ payments[pid].status = "completed") =>
                       /\ CompletedTransactions(pid) = 1
                       /\ ConfirmedEntries(payments[pid].order) = 1
                       /\ orders[payments[pid].order].status = "confirmed")
    /\ [][\A u \in Users, ref \in References :
             (VerifyBegin(u, ref) /\ PaymentOf(ref, u)
                /\ payments[PaymentByReference(ref)].status = "completed")
                 => UNCHANGED <<persisted, payments, transactions, webhooks>>]_vars
    /\ [][\A ref \in References :
             (WebhookBegin("valid", "charge.success", ref) /\ PaymentKnown(ref)
                /\ payments[PaymentByReference(ref)].status = "completed")
                 => UNCHANGED <<persisted, payments, transactions>>]_vars

\* verify completed the payment, then a charge.success delivery and a second
\* verify found it completed.
C4_Witness ==
    /\ AllIdle
    /\ successOnly
    /\ ~overlapped
    /\ nReq = 3
    /\ resp = "already_verified"
    /\ payments[1].status = "completed"
    /\ Len(transactions) = 2
    /\ transactions[2].type = "verification"
    /\ Len(webhooks) = 1
    /\ webhooks[1] = [event |-> "charge.success", processed |-> TRUE]

\* C5: when verify and the charge.success webhook of a pending payment run
\* concurrently and the charge succeeded, at most one completed Transaction
\* is created for the payment and at most one history entry for the change
\* to confirmed is appended to its order.
C5_CompletionAppliedOnce ==
    successOnly =>
        \A pid \in PaymentIds :
            /\ CompletedTransactions(pid) <= 1
            /\ ConfirmedEntries(payments[pid].order) <= 1

\* C16: when the gateway tells verify that the charge did not succeed, the
\* payment becomes failed and an error is returned, while the order, its
\* status history, the Transactions and the user's cart stay as they are.
C16_DeclineFailsPaymentOnly ==
    [][\A u \in Users :
          VerifyGateway(u, "declined")
              => /\ payments'[loc[u].pid].status = "failed"
                 /\ resp' = "verification_failed"
                 /\ pc'[u] = "idle"
                 /\ UNCHANGED <<persisted, transactions>>]_vars

\* A decline was the first answer for the payment: it is failed, its order
\* is still pending with its first history entry and no Transaction was added.
C16_Witness ==
    /\ AllIdle
    /\ resp = "verification_failed"
    /\ nReq = 1
    /\ payments[1].status = "failed"
    /\ orders[1].status = "pending"
    /\ history[1] = <<"pending">>
    /\ Len(transactions) = 1
    /\ hasCart[payments[1].user]

\* C17: when the gateway call of verify fails (network error, timeout or a
\* response that is not 2xx), verify returns an error and the payment keeps
\* its status, pending for a pending payment; the order, the Transactions
\* and the cart are unchanged, and a later verify still completes the payment
\* when the gateway reports success.
C17_GatewayErrorKeepsPending ==
    [][\A u \in Users :
          /\ VerifyGateway(u, "unreachable")
                => /\ UNCHANGED <<persisted, payments, transactions>>
                   /\ resp' = "verify_error_500"
                   /\ pc'[u] = "idle"
          /\ \A ref \in References :
                (VerifyBegin(u, ref) /\ PaymentOf(ref, u)
                   /\ payments[PaymentByReference(ref)].status = "pending")
                    => pc'[u] = "vf_gateway"
          /\ VerifyGateway(u, "success")
                => payments'[loc[u].pid].status = "completed"]_vars

\* The first verify met an unreachable gateway and left the payment pending.
C17_Witness ==
    /\ AllIdle
    /\ resp = "verify_error_500"
    /\ nReq = 1
    /\ payments[1].status = "pending"
    /\ orders[1].status = "pending"
    /\ Len(transactions) = 1

\* C18: initialize creates rows only for a pending order whose request the
\* gateway accepts: for an order in another status, and when the gateway
\* call fails or is rejected, it returns an error and creates no Payment and
\* no Transaction; when it succeeds it has created exactly one Payment with
\* status pending and one Transaction of type payment with status pending,
\* both with the gateway's reference.
C18_InitializeCreatesOncePending ==
    [][\A u \in Users :
          /\ \A oid \in 1..MaxOrders :
                InitializeBegin(u, oid) =>
                    /\ UNCHANGED <<payments, transactions>>
                    /\ (oid \in OrderIds /\ orders[oid].user = u
                          /\ orders[oid].status # "pending")
                           => (pc'[u] = "idle" /\ resp' = "order_not_pending")
          /\ \A outcome \in InitializeOutcomes :
                InitializeGateway(u, outcome) =>
                    IF resp' = "initialized"
                    THEN /\ outcome = "accepted"
                         /\ Len(payments') = Len(payments) + 1
                         /\ Len(transactions') = Len(transactions) + 1
                         /\ \A pid \in PaymentIds : payments'[pid] = payments[pid]
                         /\ \A i \in 1..Len(transactions) : transactions'[i] = transactions[i]
                         /\ payments'[Len(payments')] =
                                [order |-> loc[u].oid, user |-> u, status |-> "pending",
                                 reference |-> ReferenceFor(loc[u].oid)]
                         /\ transactions'[Len(transactions')] =
                                [payment |-> Len(payments'), type |-> "payment",
                                 status |-> "pending",
                                 reference |-> ReferenceFor(loc[u].oid)]
                    ELSE /\ UNCHANGED <<payments, transactions>>
                         /\ resp' \in {"initialize_error_500", "initialize_rejected"}
          /\ \A outcome \in {"rejected", "unreachable"} :
                InitializeGateway(u, outcome) => resp' # "initialized"]_vars

\* After verify confirmed the order, initialize was refused for it: the one
\* Payment and the two Transactions of the first attempt are all there is.
C18_Witness ==
    /\ AllIdle
    /\ resp = "order_not_pending"
    /\ orders[1].status = "confirmed"
    /\ Len(payments) = 1
    /\ Len(transactions) = 2
    /\ transactions[1] = [payment |-> 1, type |-> "payment", status |-> "pending",
                          reference |-> ReferenceFor(1)]

\* C19: an order whose earlier payment ended failed, and which is still
\* pending, can be initialized again: a second initialize that the gateway
\* accepts succeeds and adds a second pending Payment, and all Payments have
\* distinct references.
C19_ReinitializeAfterFailure ==
    /\ [][\A u \in Users :
             (InitializeGateway(u, "accepted")
                /\ \A pid \in PaymentIds :
                      payments[pid].order = loc[u].oid => payments[pid].status = "failed")
                 => /\ resp' = "initialized"
                    /\ Len(payments') = Len(payments) + 1]_vars
    /\ [](\A a, b \in PaymentIds :
             a # b => payments[a].reference # payments[b].reference)

\* C20: a webhook request whose signature is missing or does not match the
\* body is answered 400 and changes no Payment, no Order, no Transaction and
\* no status history, whatever event and reference it carries.
C20_BadSignatureRejected ==
    [][\A sig \in Signatures \ {"valid"}, event \in Events, ref \in References :
          WebhookBegin(sig, event, ref)
              => /\ resp' = "bad_signature_400"
                 /\ pc'[Gateway] = "idle"
                 /\ UNCHANGED <<persisted, payments, transactions>>]_vars

C22_WebhookMatchesVerify ==
    /\ [][\A u \in Users :
             (VerifySave(u) /\ successOnly) =>
                 /\ payments'[loc[u].pid].status = "completed"
                 /\ orders'[payments[loc[u].pid].order].status = "confirmed"
                 /\ cart'[payments[loc[u].pid].user] = NoLines]_vars
    /\ [][(WebhookSave /\ successOnly) =>
                 /\ payments'[loc[Gateway].pid].status = "completed"
                 /\ orders'[payments[loc[Gateway].pid].order].status = "confirmed"
                 /\ cart'[payments[loc[Gateway].pid].user] = NoLines]_vars

\* C28: clearing a cart removes its lines and never the Cart: every user
\* keeps the Cart row through create-order and through a successful verify,
\* and no create-order is answered that the cart is missing.
C28_CartSurvivesClearing ==
    /\ \A u \in Users : hasCart[u]
    /\ resp # "cart_not_found"

\* C25: verify and the charge.success webhook move an order to confirmed only
\* from pending: when the order that the handler read is no longer pending
\* (cancelled, say, with its stock released), the step that ends either path
\* leaves the stored status as it is.
C25_ConfirmedOnlyFromPending ==
    /\ [][\A u \in Users :
             (VerifySave(u) /\ loc[u].snap.status # "pending")
                 => orders'[loc[u].oid].status = orders[loc[u].oid].status]_vars
    /\ [][(WebhookSave /\ loc[Gateway].snap.status # "pending")
                 => orders'[loc[Gateway].oid].status = orders[loc[Gateway].oid].status]_vars

\* C26: an order whose Payment is completed cannot be cancelled: once verify
\* or the webhook has completed the payment and answered, the order's
\* payment_status is completed, and a cancel request for the order is
\* refused and changes no order, history entry or quantity.
C26_PaidOrderNotCancellable ==
    /\ [](\A pid \in PaymentIds :
             (AllIdle /\ payments[pid].status = "completed" /\ resp \in {"verified", "webhook_ok"})
                 => orders[payments[pid].order].payment_status = "completed")
    /\ [][\A r \in Users, id \in 1..MaxOrders :
             (CancelBegin(r, id) /\ AllIdle
                /\ \E pid \in PaymentIds :
                      payments[pid].order = id /\ payments[pid].status = "completed")
                 => /\ resp' = "cannot_cancel"
                    /\ pc'[r] = "idle"]_vars

\* C30: a webhook request with a valid signature is answered 200, also when
\* its reference names no Payment and when its processing raises; 400 is
\* the answer only to a missing or wrong signature.
C30_ValidWebhookAnswered200 ==
    /\ [][\A event \in Events, ref \in References :
             (WebhookBegin("valid", event, ref) /\ pc'[Gateway] = "idle")
                 => resp' = "webhook_ok"]_vars
    /\ [][(pc[Gateway] # "idle" /\ pc'[Gateway] = "idle") => resp' = "webhook_ok"]_vars
    /\ [][\A sig \in Signatures, event \in Events, ref \in References :
             (WebhookBegin(sig, event, ref) /\ pc'[Gateway] = "idle"
                /\ resp' = "bad_signature_400")
                 => sig \in {"missing", "invalid"}]_vars

\* C12: a payment leaves pending at most once: once its status is completed
\* or failed, no step of a verify call or of a webhook delivery changes it.
C12_PaymentSettlesOnce ==
    [][\A pid \in PaymentIds :
          payments[pid].status \in {"completed", "failed"}
              => payments'[pid].status = payments[pid].status]_vars

----------------------------------------------------------------------------
\* Properties of order numbers

\* C11: no two persisted orders have the same order_number, however the
\* creations interleave, and every number given by save has the form
\* ORD-date-digits with the date of a day that has begun.
C11_OrderNumbersUnique ==
    /\ \A i, j \in 1..Len(numbers) : i # j => numbers[i] # numbers[j]
    /\ \A i \in 1..Len(numbers) :
          /\ numbers[i].prefix = "ORD"
          /\ numbers[i].date \in 1..today
          /\ numbers[i].serial \in Serials

\* Two creations drew the same number on the same day; one was refused by
\* the unique index and another order of that day was persisted as well.
C11_Witness ==
    /\ resp = "duplicate_500"
    /\ Len(numbers) = 2
    /\ numbers[1].date = numbers[2].date
-----------------------------------------------------------------------------
\* Properties of the cart

\* C23: add_item(product, q) either fails and leaves the cart as it was, or
\* leaves the product's line with the previous quantity (0 without a line)
\* plus q and every other line as it was; it fails whenever the product's
\* available quantity is 0 or the resulting quantity would exceed it, so the
\* line of a successful add_item is within the available quantity.
C23_AddItemContract ==
    [][\A u \in Users, p \in Products, q \in QuantityInputs :
          add_item(u, p, q) =>
            /\ \/ resp' = "add_item_error" /\ UNCHANGED cart
               \/ /\ resp' = "added"
                  /\ cart' = [cart EXCEPT ![u][p] = cart[u][p] + q]
                  /\ cart'[u][p] >= 1
                  /\ cart'[u][p] <= qty[p]
            /\ (qty[p] = 0 \/ cart[u][p] + q > qty[p]) => resp' = "add_item_error"]_vars

\* A line holds the whole stock of its product, and a further add_item was
\* refused.
C23_Witness ==
    /\ resp = "add_item_error"
    /\ \E u \in Users, p \in Products : cart[u][p] = qty[p] /\ qty[p] >= 2

\* C27: whatever add_item, update_item_quantity, remove_item, clear and
\* merge_with_cart are called with, a cart has one quantity per product and
\* it is at least 1 for a line; add_item with a quantity <= 0 is rejected
\* and leaves the cart as it was, and update_item_quantity with a quantity
\* <= 0 removes the line, so neither lowers the quantity of a line.
C27_CartLinesWellFormed ==
    /\ [](\A u \in Users, p \in Products : cart[u][p] >= 0)
    /\ [][\A u \in Users, p \in Products, q \in QuantityInputs :
             (add_item(u, p, q) /\ q <= 0) =>
                 /\ UNCHANGED cart
                 /\ resp' = "add_item_error"]_vars
    /\ [][\A u \in Users, p \in Products, q \in QuantityInputs :
             (update_item_quantity(u, p, q) /\ q <= 0) =>
                 cart' = [cart EXCEPT ![u][p] = 0]]_vars

====
